---- MODULE Spec2Model ----
(***************************************************************************)
(* TelemetryContext of applicationinsights-properties-js: the apply-*      *)
(* operations over a telemetry item, cleanUp, getSessionId, and the        *)
(* Request-Id discovery and parsing run by the constructor.                *)
(*                                                                         *)
(* JavaScript values.  A scalar is one of the strings of Str, "num" (a     *)
(* number, i.e. a value that is not a string), "null" or "undefined".  An  *)
(* object is a total function over the key names the model uses, the value *)
(* "absent" marking a name that is not an own key; a key can therefore be  *)
(* present and hold "undefined".  A place that holds an object or nothing  *)
(* is a record [st, f]: st = "obj" with the object f, st = "undef" for a   *)
(* key present with value undefined, st = "absent" for no key.             *)
(***************************************************************************)
EXTENDS Naturals, Sequences, FiniteSets

VARIABLES self, evt, prev, last,
          value, parsed,
          env, pc, trace, consulted, found

ctxVars   == <<self, evt, prev, last>>
parseVars == <<value, parsed>>
ctorVars  == <<env, pc, trace, consulted, found>>
vars      == <<self, evt, prev, last, value, parsed, env, pc, trace, consulted, found>>

\* ------------------------------------------------------------------ bounds
\* At most this many providers of a context are set at once.
MaxSet == 2
\* At most this many elements in the document's meta list and in the first
\* navigation entry's serverTiming list.
MaxValues == 2

\* ------------------------------------------------------------- JS scalars
Str    == {"s1", "s2"}
Scalar == Str \cup {"num", "null", "undefined"}

isString(v) == v \in Str

\* ------------------------------------------------------------- JS objects
FieldKeys == {"localId", "ip", "model", "deviceClass", "id", "authId",
              "sesId", "traceID", "name", "parentID", "x"}
ExtKeys   == {"user", "device", "trace", "web", "app", "os", "custom"}
TagKeys   == {"applicationVersion", "applicationBuild", "internalAgentVersion",
              "internalSdkVersion", "internalSnippet", "internalSdkSrc",
              "locationIp", "userAccountId"}

EmptyObj  == [k \in FieldKeys |-> "absent"]
EmptyTags == [k \in TagKeys |-> "absent"]
NoSlot    == [st |-> "absent", f |-> EmptyObj]
UndefSlot == [st |-> "undef", f |-> EmptyObj]
ObjSlot(f) == [st |-> "obj", f |-> f]
EmptyExt  == [k \in ExtKeys |-> NoSlot]
NoExt     == [st |-> "absent", f |-> EmptyExt]
NoTags    == [st |-> "absent", arr |-> FALSE, f |-> EmptyTags]

objKeys(f) == {k \in DOMAIN f : f[k] # "absent"}

\* target[field] as JavaScript reads it: a missing key reads as undefined.
Read(f, field) == IF f[field] = "absent" THEN "undefined" ELSE f[field]
ReadSlot(f, field) == IF f[field].st = "obj" THEN f[field] ELSE UndefSlot

\* setValue(target, field, value, valChk) on a target that is an object:
\* the field is assigned when the value differs from the one read and passes
\* the value check, when one is given.
setValue(target, field, val, valChk) ==
    IF Read(target, field) # val /\ (valChk = "isString" => isString(val))
    THEN [target EXCEPT ![field] = val]
    ELSE target

\* setValue(target, field, value) with an object or undefined as the value
\* and no value check (the whole-object sets of ext.os and ext.web).
setValueObj(target, field, val) ==
    IF ReadSlot(target, field) # val
    THEN [target EXCEPT ![field] = val]
    ELSE target

\* getSetValue(target, field, defValue), given the place target[field]: the
\* value there when it is neither null nor undefined, the default otherwise.
\* With a target the caller stores the result back into target[field];
\* without one the result is an object attached to nothing.
getSetValue(cur, defValue) == IF cur.st = "obj" THEN cur ELSE defValue

\* -------------------------------------------------------- context providers
\* A provider is a record whose set field tells whether the context holds it;
\* its other fields are what reading the provider's attribute yields.
ApplicationOpts == {[set |-> FALSE, ver |-> "undefined", build |-> "undefined"],
                    [set |-> TRUE, ver |-> "s1", build |-> "undefined"]}
DeviceOpts == {[set |-> FALSE, id |-> "undefined", ip |-> "undefined",
                model |-> "undefined", deviceClass |-> "undefined"],
               [set |-> TRUE, id |-> "s1", ip |-> "num",
                model |-> "undefined", deviceClass |-> "s2"],
               [set |-> TRUE, id |-> "undefined", ip |-> "null",
                model |-> "undefined", deviceClass |-> "num"]}
InternalOpts == {[set |-> FALSE, agentVersion |-> "undefined", sdkVersion |-> "undefined",
                  snippetVer |-> "undefined", sdkSrc |-> "undefined"],
                 [set |-> TRUE, agentVersion |-> "undefined", sdkVersion |-> "s1",
                  snippetVer |-> "s2", sdkSrc |-> "num"]}
LocationOpts == {[set |-> FALSE, ip |-> "undefined"], [set |-> TRUE, ip |-> "s1"]}
TraceOpts == {[set |-> FALSE, traceID |-> "undefined", name |-> "undefined",
               parentID |-> "undefined"],
              [set |-> TRUE, traceID |-> "s1", name |-> "undefined",
               parentID |-> "undefined"],
              [set |-> TRUE, traceID |-> "num", name |-> "s2", parentID |-> "s2"]}
UserOpts == {[set |-> FALSE, accountId |-> "undefined", id |-> "undefined",
              authenticatedId |-> "undefined"],
             [set |-> TRUE, accountId |-> "s1", id |-> "s2",
              authenticatedId |-> "undefined"]}
SessionOpts == {[set |-> FALSE, id |-> "undefined"], [set |-> TRUE, id |-> "undefined"],
                [set |-> TRUE, id |-> "s1"]}
\* sessionManager: autoSet tells whether automaticSession is an object.
SessionManagerOpts == {[set |-> FALSE, autoSet |-> FALSE, autoId |-> "undefined"],
                       [set |-> TRUE, autoSet |-> FALSE, autoId |-> "undefined"],
                       [set |-> TRUE, autoSet |-> TRUE, autoId |-> "undefined"],
                       [set |-> TRUE, autoSet |-> TRUE, autoId |-> "s2"]}
\* os and web are whole objects: obj is what the attribute holds.
ObjectOpts == {[set |-> FALSE, obj |-> UndefSlot],
               [set |-> TRUE, obj |-> ObjSlot(EmptyObj)],
               [set |-> TRUE, obj |-> ObjSlot([EmptyObj EXCEPT !["x"] = "s1"])]}

Providers == {"application", "device", "internal", "location", "telemetryTrace",
              "user", "session", "sessionManager", "os", "web"}

Unset(opts) == CHOOSE o \in opts : ~o.set
NoProviders ==
    [application |-> Unset(ApplicationOpts), device |-> Unset(DeviceOpts),
     internal |-> Unset(InternalOpts), location |-> Unset(LocationOpts),
     telemetryTrace |-> Unset(TraceOpts), user |-> Unset(UserOpts),
     session |-> Unset(SessionOpts), sessionManager |-> Unset(SessionManagerOpts),
     os |-> Unset(ObjectOpts), web |-> Unset(ObjectOpts)]

Contexts ==
    {c \in [application : ApplicationOpts, device : DeviceOpts, internal : InternalOpts,
            location : LocationOpts, telemetryTrace : TraceOpts, user : UserOpts,
            session : SessionOpts, sessionManager : SessionManagerOpts,
            os : ObjectOpts, web : ObjectOpts] :
        Cardinality({p \in Providers : c[p].set}) <= MaxSet}

\* ------------------------------------------------------------ getSessionId
\* Mutant: the automatic session is preferred over the explicit one.
getSessionId_autoFirst(ctx) ==
    IF ctx.sessionManager.set /\ ctx.sessionManager.autoSet
          /\ isString(ctx.sessionManager.autoId)
    THEN ctx.sessionManager.autoId
    ELSE IF ctx.session.set /\ isString(ctx.session.id) THEN ctx.session.id ELSE "null"

getSessionId(ctx) ==
    IF ctx.session.set /\ isString(ctx.session.id)
    THEN ctx.session.id
    ELSE IF ctx.sessionManager.set /\ ctx.sessionManager.autoSet
               /\ isString(ctx.sessionManager.autoId)
         THEN ctx.sessionManager.autoId
         ELSE "null"

\* ------------------------------------------------------- apply-* operations
\* Each operator gives the telemetry item after the call.

\* getSetValue(evt.ext, "app"): evt.ext is read, never created.  Without ext
\* the "app" object is attached to nothing and the write is lost.
applySessionContext(ctx, e) ==
    IF e.ext.st # "obj"
    THEN e
    ELSE LET app  == getSetValue(e.ext.f["app"], ObjSlot(EmptyObj))
             app2 == [app EXCEPT !.f = setValue(app.f, "sesId", getSessionId(ctx), "isString")]
         IN  [e EXCEPT !.ext.f["app"] = app2]

\* setValue(evt.ext, "os", _self.os): no guard on the provider, no value check.
applyOperatingSystemContxt(ctx, e) ==
    IF e.ext.st # "obj"
    THEN e
    ELSE [e EXCEPT !.ext.f = setValueObj(e.ext.f, "os", ctx.os.obj)]

applyApplicationContext(ctx, e) ==
    IF ~ctx.application.set
    THEN e
    ELSE LET tags == getSetValue(e.tags, [st |-> "obj", arr |-> FALSE, f |-> EmptyTags])
             t1   == setValue(tags.f, "applicationVersion", ctx.application.ver, "isString")
             t2   == setValue(t1, "applicationBuild", ctx.application.build, "isString")
         IN  [e EXCEPT !.tags = [tags EXCEPT !.f = t2]]

applyDeviceContext(ctx, e) ==
    IF ~ctx.device.set
    THEN e
    ELSE LET ext == getSetValue(e.ext, [st |-> "obj", f |-> EmptyExt])
             dev == getSetValue(ext.f["device"], ObjSlot(EmptyObj))
             d1  == setValue(dev.f, "localId", ctx.device.id, "isString")
             d2  == setValue(d1, "ip", ctx.device.ip, "isString")
             d3  == setValue(d2, "model", ctx.device.model, "isString")
             d4  == setValue(d3, "deviceClass", ctx.device.deviceClass, "isString")
         IN  [e EXCEPT !.ext = [ext EXCEPT !.f["device"] = [dev EXCEPT !.f = d4]]]

InternalMessageType == "MessageData"
PageViewType == "PageviewData"

applyInternalContext(ctx, e) ==
    IF ~ctx.internal.set
    THEN e
    ELSE LET tags == getSetValue(e.tags, [st |-> "obj", arr |-> FALSE, f |-> EmptyTags])
             t1   == setValue(tags.f, "internalAgentVersion", ctx.internal.agentVersion, "isString")
             t2   == setValue(t1, "internalSdkVersion", ctx.internal.sdkVersion, "isString")
             t3   == setValue(t2, "internalSnippet", ctx.internal.snippetVer, "isString")
             t4   == setValue(t3, "internalSdkSrc", ctx.internal.sdkSrc, "isString")
         IN  IF e.baseType = InternalMessageType \/ e.baseType = PageViewType
             THEN [e EXCEPT !.tags = [tags EXCEPT !.f = t4]]
             ELSE [e EXCEPT !.tags = [tags EXCEPT !.f = t2]]

\* getSetValue(evt, "tags", []): the default is an array.
applyLocationContext(ctx, e) ==
    IF ~ctx.location.set
    THEN e
    ELSE LET tags == getSetValue(e.tags, [st |-> "obj", arr |-> TRUE, f |-> EmptyTags])
         IN  [e EXCEPT !.tags =
                 [tags EXCEPT !.f = setValue(tags.f, "locationIp", ctx.location.ip, "isString")]]

\* The default of ext.trace is { traceID: undefined, parentID: undefined }:
\* two own keys holding undefined.
TraceDefault == [EmptyObj EXCEPT !["traceID"] = "undefined", !["parentID"] = "undefined"]

applyOperationContext(ctx, e) ==
    IF ~ctx.telemetryTrace.set
    THEN e
    ELSE LET ext == getSetValue(e.ext, [st |-> "obj", f |-> EmptyExt])
             tr  == getSetValue(ext.f["trace"], ObjSlot(TraceDefault))
             x1  == setValue(tr.f, "traceID", ctx.telemetryTrace.traceID, "isString")
             x2  == setValue(x1, "name", ctx.telemetryTrace.name, "isString")
             x3  == setValue(x2, "parentID", ctx.telemetryTrace.parentID, "isString")
         IN  [e EXCEPT !.ext = [ext EXCEPT !.f["trace"] = [tr EXCEPT !.f = x3]]]

applyWebContext(ctx, e) ==
    IF ~ctx.web.set
    THEN e
    ELSE LET ext == getSetValue(e.ext, [st |-> "obj", f |-> EmptyExt])
         IN  [e EXCEPT !.ext = [ext EXCEPT !.f = setValueObj(ext.f, "web", ctx.web.obj)]]

\* Mutant: authId is taken from the item's own ext.user.id, not from the provider.
applyUserContext_readsItem(ctx, e) ==
    IF ~ctx.user.set
    THEN e
    ELSE LET tags == getSetValue(e.tags, [st |-> "obj", arr |-> TRUE, f |-> EmptyTags])
             t1   == setValue(tags.f, "userAccountId", ctx.user.accountId, "isString")
             ext  == getSetValue(e.ext, [st |-> "obj", f |-> EmptyExt])
             usr  == getSetValue(ext.f["user"], ObjSlot(EmptyObj))
             u1   == setValue(usr.f, "id", ctx.user.id, "isString")
             u2   == setValue(u1, "authId", Read(usr.f, "id"), "isString")
         IN  [e EXCEPT !.tags = [tags EXCEPT !.f = t1],
                       !.ext = [ext EXCEPT !.f["user"] = [usr EXCEPT !.f = u2]]]

applyUserContext(ctx, e) ==
    IF ~ctx.user.set
    THEN e
    ELSE LET tags == getSetValue(e.tags, [st |-> "obj", arr |-> TRUE, f |-> EmptyTags])
             t1   == setValue(tags.f, "userAccountId", ctx.user.accountId, "isString")
             ext  == getSetValue(e.ext, [st |-> "obj", f |-> EmptyExt])
             usr  == getSetValue(ext.f["user"], ObjSlot(EmptyObj))
             u1   == setValue(usr.f, "id", ctx.user.id, "isString")
             u2   == setValue(u1, "authId", ctx.user.authenticatedId, "isString")
         IN  [e EXCEPT !.tags = [tags EXCEPT !.f = t1],
                       !.ext = [ext EXCEPT !.f["user"] = [usr EXCEPT !.f = u2]]]

\* ------------------------------------------------------------------ cleanUp
\* Mutant: the length test is inverted, the bucket is removed when it has keys.
_removeEmpty_inverted(target, name) ==
    IF target[name].st = "obj" /\ Cardinality(objKeys(target[name].f)) # 0
    THEN [target EXCEPT ![name] = NoSlot]
    ELSE target

_removeEmpty(target, name) ==
    IF target[name].st = "obj" /\ Cardinality(objKeys(target[name].f)) = 0
    THEN [target EXCEPT ![name] = NoSlot]
    ELSE target

cleanUp(e) ==
    IF e.ext.st # "obj"
    THEN e
    ELSE LET x1 == _removeEmpty(e.ext.f, "device")
             x2 == _removeEmpty(x1, "user")
             x3 == _removeEmpty(x2, "web")
             x4 == _removeEmpty(x3, "os")
             x5 == _removeEmpty(x4, "app")
             x6 == _removeEmpty(x5, "trace")
         IN  [e EXCEPT !.ext.f = x6]

ApplyOps == {"session", "os", "application", "device", "internal", "location",
             "operation", "web", "user"}

Apply(op, ctx, e) ==
    CASE op = "session"     -> applySessionContext(ctx, e)
      [] op = "os"          -> applyOperatingSystemContxt(ctx, e)
      [] op = "application" -> applyApplicationContext(ctx, e)
      [] op = "device"      -> applyDeviceContext(ctx, e)
      [] op = "internal"    -> applyInternalContext(ctx, e)
      [] op = "location"    -> applyLocationContext(ctx, e)
      [] op = "operation"   -> applyOperationContext(ctx, e)
      [] op = "web"         -> applyWebContext(ctx, e)
      [] op = "user"        -> applyUserContext(ctx, e)

\* ----------------------------------------------------------- telemetry items
\* The items handed to the context: without tags and ext, with the empty
\* tags array and ext object the plugin creates, and with ext entries already
\* there (filled, empty, and one under a name cleanUp does not know).
Items ==
    {[baseType |-> "EventData", tags |-> NoTags, ext |-> NoExt],
     [baseType |-> PageViewType,
      tags |-> [st |-> "obj", arr |-> TRUE, f |-> EmptyTags],
      ext |-> [st |-> "obj", f |-> EmptyExt]],
     [baseType |-> "EventData", tags |-> NoTags,
      ext |-> [st |-> "obj",
               f |-> [EmptyExt EXCEPT
                        !["device"] = ObjSlot([EmptyObj EXCEPT !["localId"] = "s2", !["x"] = "s1"]),
                        !["os"] = ObjSlot([EmptyObj EXCEPT !["x"] = "s2"]),
                        !["custom"] = ObjSlot(EmptyObj)]]],
     [baseType |-> InternalMessageType,
      tags |-> [st |-> "obj", arr |-> FALSE,
                f |-> [EmptyTags EXCEPT !["applicationVersion"] = "s2"]],
      ext |-> [st |-> "obj",
               f |-> [EmptyExt EXCEPT
                        !["user"] = ObjSlot(EmptyObj),
                        !["trace"] = ObjSlot(EmptyObj),
                        !["app"] = ObjSlot([EmptyObj EXCEPT !["sesId"] = "s2"]),
                        !["custom"] = ObjSlot([EmptyObj EXCEPT !["x"] = "s1"])]]]}

\* ------------------------------------------------------------- strings
\* A string is a sequence of one-character strings.
Rep(c, n) == [i \in 1..n |-> c]
HexLower == {"0", "1", "2", "3", "4", "5", "6", "7", "8", "9",
             "a", "b", "c", "d", "e", "f"}
WhiteSpace == {" "}

RECURSIVE trimStart(_)
trimStart(s) ==
    IF Len(s) > 0 /\ s[1] \in WhiteSpace THEN trimStart(Tail(s)) ELSE s
RECURSIVE trimEnd(_)
trimEnd(s) ==
    IF Len(s) > 0 /\ s[Len(s)] \in WhiteSpace THEN trimEnd(SubSeq(s, 1, Len(s) - 1)) ELSE s
strTrim(s) == trimEnd(trimStart(s))

strStartsWith(s, c) == Len(s) > 0 /\ s[1] = c
strEndsWith(s, c) == Len(s) > 0 /\ s[Len(s)] = c

\* value.indexOf("."): the 0-based place of the first dot, -1 without one.
NotFound == 0 - 1
indexOf(s, c) ==
    IF \E i \in 1..Len(s) : s[i] = c
    THEN (CHOOSE i \in 1..Len(s) : s[i] = c /\ \A j \in 1..(i - 1) : s[j] # c) - 1
    ELSE NotFound

\* value.substring(from, to) and value.substring(from), 0-based, end exclusive.
substring(s, from, to) == SubSeq(s, from + 1, to)
substringFrom(s, from) == SubSeq(s, from + 1, Len(s))

TraceIdLen == 32
SpanIdLen == 16
isValidHex(v, len) ==
    /\ Len(v) = len
    /\ v # Rep("0", len)
    /\ \A i \in 1..Len(v) : v[i] \in HexLower
isValidTraceId(v) == isValidHex(v, TraceIdLen)
isValidSpanId(v) == isValidHex(v, SpanIdLen)

NoTraceParent == [ok |-> FALSE, traceId |-> <<>>, spanId |-> <<>>]
createTraceParent(traceId, spanId) == [ok |-> TRUE, traceId |-> traceId, spanId |-> spanId]

\* ---------------------------------------------------------- _parseRequestId
\* The argument: kind "undef" (no value), "str" (the string s) or "arr" (an
\* array of n elements whose first element, when n > 0, is the string s).
UndefValue == [kind |-> "undef", s |-> <<>>, n |-> 0]
StrValue(s) == [kind |-> "str", s |-> s, n |-> 0]
ArrValue(s, n) == [kind |-> "arr", s |-> IF n = 0 THEN <<>> ELSE s, n |-> n]

\* Mutant: the trailing "." of the span id is not stripped.
ParseString_noStrip(v) ==
    IF ~strStartsWith(v, "|")
    THEN NoTraceParent
    ELSE LET idx == indexOf(v, ".")
         IN  IF idx = NotFound
             THEN NoTraceParent
             ELSE LET traceId == substring(v, 1, idx)
                      spanId  == substringFrom(v, idx + 1)
                  IN  IF isValidTraceId(traceId) /\ isValidSpanId(spanId)
                      THEN createTraceParent(traceId, spanId)
                      ELSE NoTraceParent

\* The trimmed, non-empty string: the bar, the first dot, the two halves.
ParseString(v) ==
    IF ~strStartsWith(v, "|")
    THEN NoTraceParent
    ELSE LET idx == indexOf(v, ".")
         IN  IF idx = NotFound
             THEN NoTraceParent
             ELSE LET traceId == substring(v, 1, idx)
                      rest    == substringFrom(v, idx + 1)
                      spanId  == IF strEndsWith(rest, ".")
                                 THEN substring(rest, 0, Len(rest) - 1)
                                 ELSE rest
                  IN  IF isValidTraceId(traceId) /\ isValidSpanId(spanId)
                      THEN createTraceParent(traceId, spanId)
                      ELSE NoTraceParent

\* if (value): undefined and "" are given up; an array is replaced by
\* value[0] || "", and what is left is parsed when it is a non-empty string.
_parseRequestId(val) ==
    IF val.kind = "undef" \/ val.s = <<>>
    THEN NoTraceParent
    ELSE ParseString(strTrim(val.s))

\* The strings handed to the parser, put together from parts: leading text,
\* the bar, a trace id, the separator, a span id, trailing text.
LeadParts == {<<>>, <<" ">>}
BarParts == {<<"|">>, <<>>}
TraceParts == {Rep("a", 32), Rep("0", 32), Rep("a", 31), Rep("a", 33),
               Rep("a", 31) \o <<"A">>, Rep("a", 31) \o <<"g">>,
               Rep("0", 31) \o <<"1">>, <<>>}
SepParts == {<<".">>, <<>>}
SpanParts == {Rep("b", 16), Rep("0", 16), Rep("b", 15), Rep("b", 17),
              Rep("b", 15) \o <<"B">>, <<>>}
TailParts == {<<>>, <<".">>, <<".", ".">>, <<" ">>, <<".", " ">>}
Strings ==
    {l \o b \o t \o d \o p \o e :
        l \in LeadParts, b \in BarParts, t \in TraceParts, d \in SepParts,
        p \in SpanParts, e \in TailParts}

ValidA == <<"|">> \o Rep("a", 32) \o <<".">> \o Rep("b", 16) \o <<".">>
ValidB == <<" ", "|">> \o Rep("c", 32) \o <<".">> \o Rep("d", 16)
Malformed == <<"|">> \o Rep("a", 31) \o <<".">> \o Rep("b", 16)

Values ==
    {UndefValue} \cup {StrValue(s) : s \in Strings}
        \cup {ArrValue(s, n) : s \in {ValidA, Malformed}, n \in 0..2}

Pending == [ok |-> FALSE, traceId |-> <<"?">>, spanId |-> <<>>]

idleCtx ==
    /\ self = NoProviders
    /\ evt = [baseType |-> "EventData", tags |-> NoTags, ext |-> NoExt]
    /\ prev = evt
    /\ last = "new"
idleParse == value = UndefValue /\ parsed = NoTraceParent
idleCtor ==
    /\ env = [hasWindow |-> FALSE]
    /\ pc = "idle"
    /\ trace = [set |-> FALSE]
    /\ consulted = <<>>
    /\ found = [ok |-> FALSE, traceId |-> <<>>, spanId |-> <<>>]

InitParse ==
    /\ value \in Values
    /\ parsed = Pending
    /\ idleCtx
    /\ idleCtor

Parse ==
    /\ parsed = Pending
    /\ parsed' = _parseRequestId(value)
    /\ UNCHANGED <<value, ctxVars, ctorVars>>

NextParse == Parse

SpecParse == InitParse /\ [][NextParse]_vars

\* --------------------------------------------------------- _findRequestId
\* A list the discovery scans (the document's meta elements, a navigation
\* entry's serverTiming): present tells whether there is a list at all; an
\* element has a name and a val (content, or description).
NoElement == [name |-> "", val |-> UndefValue]

RECURSIVE ScanFrom(_, _)
ScanFrom(list, i) ==
    IF i > Len(list)
    THEN NoElement
    ELSE IF list[i].name # "" /\ list[i].name = "Request-Id"
         THEN list[i]
         ELSE ScanFrom(list, i + 1)

RECURSIVE ScanValidFrom(_, _)
ScanValidFrom(list, i) ==
    IF i > Len(list)
    THEN NoElement
    ELSE IF list[i].name = "Request-Id" /\ _parseRequestId(list[i].val).ok
         THEN list[i]
         ELSE ScanValidFrom(list, i + 1)

\* Mutant: the scan goes on past an element named "Request-Id" whose value
\* does not parse.
_getRequestIdValue_firstValid(values) ==
    IF values.present THEN ScanValidFrom(values.list, 1) ELSE NoElement

_getRequestIdValue(values) ==
    IF values.present THEN ScanFrom(values.list, 1) ELSE NoElement

\* The environment: env.doc is getDocument() with its meta elements;
\* env.perf is getPerformance(), hasNav telling whether
\* getEntriesByType("navigation") has a first entry, st being that entry's
\* serverTiming.  The result carries the sources read, in the order read.
DocResult(e) == _parseRequestId(_getRequestIdValue(e.doc).val)
PerfResult(e) ==
    _parseRequestId(_getRequestIdValue(
        IF e.perf.hasNav THEN e.perf.st ELSE [present |-> FALSE, list |-> <<>>]).val)

\* Mutant: the server-timing entry is tried before the document.
_findRequestId_perfFirst(e) ==
    LET fromPerf == IF e.perf.present THEN PerfResult(e) ELSE NoTraceParent
        readPerf == IF e.perf.present THEN <<"serverTiming">> ELSE <<>>
    IN  IF fromPerf.ok
        THEN [tp |-> fromPerf, read |-> readPerf]
        ELSE [tp |-> IF e.doc.present THEN DocResult(e) ELSE NoTraceParent,
              read |-> readPerf \o (IF e.doc.present THEN <<"meta">> ELSE <<>>)]

_findRequestId(e) ==
    LET fromDoc == IF e.doc.present THEN DocResult(e) ELSE NoTraceParent
        readDoc == IF e.doc.present THEN <<"meta">> ELSE <<>>
    IN  IF fromDoc.ok
        THEN [tp |-> fromDoc, read |-> readDoc]
        ELSE IF e.perf.present
             THEN [tp |-> PerfResult(e), read |-> readDoc \o <<"serverTiming">>]
             ELSE [tp |-> NoTraceParent, read |-> readDoc]

\* ------------------------------------------------------------- constructor
\* findW3cTraceParent(): the trace parent of the W3C carrier, when there is one.
findW3cTraceParent(e) == e.w3c

\* new TelemetryTrace(id, parentId, name, logger): the trace id is the one
\* given or, without one, a generated one.
Generated == [src |-> "generated", id |-> <<>>]
TelemetryTrace(id, parentId) ==
    [set |-> TRUE, traceID |-> id, parentID |-> parentId]
NoTrace == [set |-> FALSE, traceID |-> Generated, parentID |-> <<"undefined">>]

\* new TelemetryTrace(undefined, parentId, undefined, logger), parentId being
\* the span id of the trace parent found, undefined without one.
seedTrace(tp) ==
    TelemetryTrace(Generated, IF tp.ok THEN tp.spanId ELSE <<"undefined">>)

\* The W3C carrier first, _findRequestId only without it.
discover(e) ==
    LET w == findW3cTraceParent(e)
    IN  IF w.ok
        THEN [tp |-> w, read |-> <<"w3c">>]
        ELSE LET r == _findRequestId(e)
             IN  [tp |-> r.tp, read |-> <<"w3c">> \o r.read]

Elements ==
    {[name |-> "Request-Id", val |-> StrValue(ValidA)],
     [name |-> "Request-Id", val |-> StrValue(Malformed)],
     [name |-> "Request-Id", val |-> ArrValue(ValidB, 1)],
     [name |-> "other", val |-> StrValue(ValidB)]}

RECURSIVE SeqsUpTo(_, _)
SeqsUpTo(S, n) ==
    IF n = 0
    THEN {<<>>}
    ELSE LET shorter == SeqsUpTo(S, n - 1)
         IN  shorter \cup {Append(q, x) : q \in shorter, x \in S}

Lists ==
    {[present |-> FALSE, list |-> <<>>]}
        \cup {[present |-> TRUE, list |-> q] : q \in SeqsUpTo(Elements, MaxValues)}

W3cParent == createTraceParent(Rep("e", 32), Rep("f", 16))

Envs ==
    [hasWindow : BOOLEAN,
     disableTraceParent : BOOLEAN,
     w3c : {NoTraceParent, W3cParent},
     doc : Lists,
     perf : {[present |-> FALSE, hasNav |-> FALSE, st |-> [present |-> FALSE, list |-> <<>>]],
             [present |-> TRUE, hasNav |-> FALSE, st |-> [present |-> FALSE, list |-> <<>>]]}
            \cup {[present |-> TRUE, hasNav |-> TRUE, st |-> l] : l \in Lists}]

\* --------------------------------------------------- the enrichment machine

Init ==
    /\ self \in Contexts
    /\ evt \in Items
    /\ prev = evt
    /\ last = "new"
    /\ idleParse
    /\ idleCtor

ApplySession ==
    /\ evt' = applySessionContext(self, evt)
    /\ prev' = evt
    /\ last' = "session"
    /\ UNCHANGED <<self, parseVars, ctorVars>>

ApplyOS ==
    /\ evt' = applyOperatingSystemContxt(self, evt)
    /\ prev' = evt
    /\ last' = "os"
    /\ UNCHANGED <<self, parseVars, ctorVars>>

ApplyApplication ==
    /\ evt' = applyApplicationContext(self, evt)
    /\ prev' = evt
    /\ last' = "application"
    /\ UNCHANGED <<self, parseVars, ctorVars>>

ApplyDevice ==
    /\ evt' = applyDeviceContext(self, evt)
    /\ prev' = evt
    /\ last' = "device"
    /\ UNCHANGED <<self, parseVars, ctorVars>>

ApplyInternal ==
    /\ evt' = applyInternalContext(self, evt)
    /\ prev' = evt
    /\ last' = "internal"
    /\ UNCHANGED <<self, parseVars, ctorVars>>

ApplyLocation ==
    /\ evt' = applyLocationContext(self, evt)
    /\ prev' = evt
    /\ last' = "location"
    /\ UNCHANGED <<self, parseVars, ctorVars>>

ApplyOperation ==
    /\ evt' = applyOperationContext(self, evt)
    /\ prev' = evt
    /\ last' = "operation"
    /\ UNCHANGED <<self, parseVars, ctorVars>>

ApplyWeb ==
    /\ evt' = applyWebContext(self, evt)
    /\ prev' = evt
    /\ last' = "web"
    /\ UNCHANGED <<self, parseVars, ctorVars>>

ApplyUser ==
    /\ evt' = applyUserContext(self, evt)
    /\ prev' = evt
    /\ last' = "user"
    /\ UNCHANGED <<self, parseVars, ctorVars>>

CleanUp ==
    /\ evt' = cleanUp(evt)
    /\ prev' = evt
    /\ last' = "cleanUp"
    /\ UNCHANGED <<self, parseVars, ctorVars>>

Next ==
    \/ ApplySession
    \/ ApplyOS
    \/ ApplyApplication
    \/ ApplyDevice
    \/ ApplyInternal
    \/ ApplyLocation
    \/ ApplyOperation
    \/ ApplyWeb
    \/ ApplyUser
    \/ CleanUp

Spec == Init /\ [][Next]_vars

\* ------------------------------------------------- the constructor machine
InitCtor ==
    /\ env \in Envs
    /\ pc = "new"
    /\ trace = NoTrace
    /\ consulted = <<>>
    /\ found = NoTraceParent
    /\ idleCtx
    /\ idleParse

\* Without a window: no session manager, device, location, user, operation
\* identity or session, and nothing is looked for.
ConstructNoWindow ==
    /\ pc = "new"
    /\ ~env.hasWindow
    /\ pc' = "done"
    /\ UNCHANGED <<env, trace, consulted, found, ctxVars, parseVars>>

ConstructDisabled ==
    /\ pc = "new"
    /\ env.hasWindow
    /\ env.disableTraceParent
    /\ trace' = seedTrace(NoTraceParent)
    /\ pc' = "done"
    /\ UNCHANGED <<env, consulted, found, ctxVars, parseVars>>

ConstructDiscover ==
    /\ pc = "new"
    /\ env.hasWindow
    /\ ~env.disableTraceParent
    /\ LET r == discover(env)
       IN  /\ found' = r.tp
           /\ consulted' = r.read
           /\ trace' = seedTrace(r.tp)
    /\ pc' = "done"
    /\ UNCHANGED <<env, ctxVars, parseVars>>

NextCtor ==
    \/ ConstructNoWindow
    \/ ConstructDisabled
    \/ ConstructDiscover

SpecCtor == InitCtor /\ [][NextCtor]_vars

\* ------------------------------------------------- claims on the enrichment
HasExt(e) == e.ext.st = "obj"
IsEmptyBucket(e, k) ==
    HasExt(e) /\ e.ext.f[k].st = "obj" /\ objKeys(e.ext.f[k].f) = {}
CleanedKeys == {"device", "user", "web", "os", "app", "trace"}

\* C1 as stated: after cleanUp no key of ext, whatever its name and whether or
\* not it was there before enrichment, maps to an object with zero own keys.
C1_NoEmptyExtEntry ==
    last = "cleanUp" => \A k \in ExtKeys : ~IsEmptyBucket(evt, k)

\* C1 amended: after cleanUp none of the six buckets device, user, web, os,
\* app, trace maps to an object with zero own keys, and an ext entry under any
\* other name is what it was before cleanUp.
C1_NoEmptyKnownBucket ==
    last = "cleanUp" =>
        /\ \A k \in CleanedKeys : ~IsEmptyBucket(evt, k)
        /\ \A k \in ExtKeys \ CleanedKeys : evt.ext.f[k] = prev.ext.f[k]

\* C1 witness: cleanUp has just removed an empty bucket.
C1_Witness ==
    /\ last = "cleanUp"
    /\ \E k \in CleanedKeys : IsEmptyBucket(prev, k) /\ evt.ext.f[k].st = "absent"

\* C2: getSessionId returns the session provider's id when that is a string,
\* else the automatic session's id when that is a string, else null.
C2_SessionIdResolution ==
    LET explicit == self.session.set /\ self.session.id \in Str
        auto     == /\ self.sessionManager.set
                    /\ self.sessionManager.autoSet
                    /\ self.sessionManager.autoId \in Str
    IN  /\ explicit => getSessionId(self) = self.session.id
        /\ (~explicit /\ auto) => getSessionId(self) = self.sessionManager.autoId
        /\ (~explicit /\ ~auto) => getSessionId(self) = "null"

\* C2 witness: an explicit and an automatic session id are both present and
\* differ, and applySessionContext has written the explicit one.
C2_Witness ==
    /\ self.session.set /\ self.session.id \in Str
    /\ self.sessionManager.set /\ self.sessionManager.autoSet
    /\ self.sessionManager.autoId \in Str
    /\ self.session.id # self.sessionManager.autoId
    /\ last = "session"
    /\ HasExt(evt) /\ evt.ext.f["app"].st = "obj"
    /\ evt.ext.f["app"].f["sesId"] = self.session.id

\* C3 as stated: whenever getSessionId() is a string, applySessionContext
\* leaves it at item.ext.app.sesId, also for an item that had no ext.
C3_SessionIdWritten ==
    (last = "session" /\ getSessionId(self) \in Str) =>
        /\ HasExt(evt)
        /\ evt.ext.f["app"].st = "obj"
        /\ evt.ext.f["app"].f["sesId"] = getSessionId(self)

\* C4 as stated: a field-by-field apply-* operation adds no key for a provider
\* field that is not a string: every key it adds to tags or to an ext bucket
\* holds a string.
FieldOps == {"application", "device", "internal", "location", "operation",
             "user", "session"}
TagAt(e, k) == IF e.tags.st = "obj" THEN e.tags.f[k] ELSE "absent"
FieldAt(e, b, k) ==
    IF HasExt(e) /\ e.ext.f[b].st = "obj" THEN e.ext.f[b].f[k] ELSE "absent"

C4_OnlyStringsAdded ==
    last \in FieldOps =>
        /\ \A k \in TagKeys :
              (TagAt(prev, k) = "absent" /\ TagAt(evt, k) # "absent") => TagAt(evt, k) \in Str
        /\ \A b \in ExtKeys : \A k \in FieldKeys :
              (FieldAt(prev, b, k) = "absent" /\ FieldAt(evt, b, k) # "absent")
                  => FieldAt(evt, b, k) \in Str

\* C5 as stated: an apply-* operation whose provider is unset leaves the item
\* as it was.
ProviderUnset(op) ==
    CASE op = "device"    -> ~self.device.set
      [] op = "location"  -> ~self.location.set
      [] op = "user"      -> ~self.user.set
      [] op = "operation" -> ~self.telemetryTrace.set
      [] op = "session"   -> ~self.session.set /\ ~self.sessionManager.set
      [] op = "web"       -> ~self.web.set
      [] op = "os"        -> ~self.os.set
      [] OTHER            -> FALSE

C5_UnsetProviderNoOp ==
    (last \in ApplyOps /\ ProviderUnset(last)) => evt = prev

\* C6: an apply-* operation applied again to the item it has just produced,
\* the providers being what they were, yields that item; and no step changes
\* a provider.
C6_Idempotent ==
    /\ [](last \in ApplyOps => Apply(last, self, evt) = evt)
    /\ [][self' = self]_vars

\* C6 witness: an operation has just changed the item.
C6_Witness == last \in ApplyOps /\ evt # prev

\* C10 as stated: for the providers as they are, any two apply-* operations
\* give the same item in either order, from every item.
C10_Commute ==
    \A a \in ApplyOps : \A b \in ApplyOps :
        Apply(a, self, Apply(b, self, evt)) = Apply(b, self, Apply(a, self, evt))

\* ------------------------------------------------ claims on the constructor
InSeq(x, q) == \E i \in 1..Len(q) : q[i] = x
IsRequestId(l, i) == l.list[i].name = "Request-Id"

\* The value of the first element named "Request-Id" of a list, if any.
FirstNamed(l) ==
    IF l.present /\ \E i \in 1..Len(l.list) : IsRequestId(l, i)
    THEN l.list[CHOOSE i \in 1..Len(l.list) :
                    IsRequestId(l, i) /\ \A j \in 1..(i - 1) : ~IsRequestId(l, j)].val
    ELSE UndefValue

\* What each source yields, none when the environment has no such source.
DocYield == IF env.doc.present THEN _parseRequestId(FirstNamed(env.doc)) ELSE NoTraceParent
PerfYield ==
    IF env.perf.present /\ env.perf.hasNav
    THEN _parseRequestId(FirstNamed(env.perf.st))
    ELSE NoTraceParent
AnyValid(l) ==
    l.present /\ \E i \in 1..Len(l.list) : IsRequestId(l, i) /\ _parseRequestId(l.list[i].val).ok
FromList(tp, l) ==
    \E i \in 1..Len(l.list) : IsRequestId(l, i) /\ _parseRequestId(l.list[i].val) = tp
FindRequestIdCalled ==
    pc = "done" /\ env.hasWindow /\ ~env.disableTraceParent /\ ~env.w3c.ok

\* C7: once constructed, parentID is the span id of the first of the W3C
\* carrier, the document meta "Request-Id" and the navigation server-timing
\* "Request-Id" that yields a trace parent; no source after that one is read;
\* parentID is undefined when none yields or discovery is disabled; the trace
\* id is a generated one, never the discovered one; without a window there is
\* no operation identity and nothing is read.
C7_TraceParentSeeding ==
    pc = "done" =>
        /\ ~env.hasWindow => (~trace.set /\ consulted = <<>>)
        /\ env.hasWindow => (trace.set /\ trace.traceID = Generated)
        /\ (env.hasWindow /\ env.disableTraceParent) =>
              (trace.parentID = <<"undefined">> /\ consulted = <<>>)
        /\ (env.hasWindow /\ ~env.disableTraceParent) =>
              /\ trace.parentID =
                    IF env.w3c.ok THEN env.w3c.spanId
                    ELSE IF DocYield.ok THEN DocYield.spanId
                    ELSE IF PerfYield.ok THEN PerfYield.spanId
                    ELSE <<"undefined">>
              /\ env.w3c.ok => (~InSeq("meta", consulted) /\ ~InSeq("serverTiming", consulted))
              /\ (~env.w3c.ok /\ DocYield.ok) => ~InSeq("serverTiming", consulted)

\* C7 witness: the document yields a trace parent, the server timing would
\* yield another one, and the document's span id is the parent id.
C7_Witness ==
    /\ FindRequestIdCalled
    /\ DocYield.ok /\ PerfYield.ok /\ DocYield.spanId # PerfYield.spanId
    /\ trace.set /\ trace.parentID = DocYield.spanId
    /\ consulted = <<"w3c", "meta">>

\* C8 as stated: when any meta element named "Request-Id" has content that
\* parses, _findRequestId returns a trace parent parsed from such an element,
\* whatever an earlier element named "Request-Id" holds; and likewise, the
\* document yielding nothing, for the first navigation entry's server timing.
C8_AllCandidatesConsulted ==
    FindRequestIdCalled =>
        /\ AnyValid(env.doc) => (found.ok /\ FromList(found, env.doc))
        /\ (~AnyValid(env.doc) /\ env.perf.present /\ env.perf.hasNav /\ AnyValid(env.perf.st))
              => (found.ok /\ FromList(found, env.perf.st))

\* C8 amended: within a source only the first element named "Request-Id" is
\* consulted: _findRequestId returns what the content of the first such meta
\* element parses to; when that is nothing (no such element, or malformed
\* content, even if a later element would parse) it returns what the
\* description of the first such entry of the first navigation entry's
\* server timing parses to.
C8_FirstCandidateOnly ==
    FindRequestIdCalled =>
        found = IF DocYield.ok THEN DocYield ELSE PerfYield

\* C8 witness: the first meta named "Request-Id" is malformed, a later one
\* would parse, and the document yielded nothing.
C8_Witness ==
    /\ FindRequestIdCalled
    /\ AnyValid(env.doc) /\ ~DocYield.ok
    /\ ~env.perf.present
    /\ ~found.ok

\* --------------------------------------------------- claims on the parser
\* s matches ^\|[0-9a-f]{32}\.[0-9a-f]{16}\.?$ with neither half all zero.
MatchesLegacy(s) ==
    /\ Len(s) \in {50, 51}
    /\ s[1] = "|"
    /\ \A i \in 2..33 : s[i] \in HexLower
    /\ s[34] = "."
    /\ \A i \in 35..50 : s[i] \in HexLower
    /\ Len(s) = 51 => s[51] = "."
    /\ \E i \in 2..33 : s[i] # "0"
    /\ \E i \in 35..50 : s[i] # "0"

\* s without its leading and trailing white space.
Trimmed(s) ==
    IF \A i \in 1..Len(s) : s[i] = " "
    THEN <<>>
    ELSE LET lo == CHOOSE i \in 1..Len(s) : s[i] # " " /\ \A j \in 1..(i - 1) : s[j] = " "
             hi == CHOOSE i \in 1..Len(s) : s[i] # " " /\ \A j \in (i + 1)..Len(s) : s[j] = " "
         IN  SubSeq(s, lo, hi)

Expected(s) ==
    IF MatchesLegacy(s)
    THEN [ok |-> TRUE, traceId |-> SubSeq(s, 2, 33), spanId |-> SubSeq(s, 35, 50)]
    ELSE NoTraceParent

\* C9 as stated: a string that does not match the pattern parses to none; one
\* that matches parses to its 32 characters after "|" and its 16 after ".".
C9_StrictFormat ==
    (parsed # Pending /\ value.kind = "str") => parsed = Expected(value.s)

\* C9 amended: the pattern is matched by the string with its leading and
\* trailing white space removed: a string whose trimmed form does not match
\* parses to none, one whose trimmed form matches parses to the trace id and
\* span id of the trimmed form.
C9_StrictFormatAfterTrim ==
    (parsed # Pending /\ value.kind = "str") => parsed = Expected(Trimmed(value.s))

\* C9 witness: a string with a trailing "." and white space around it has
\* been parsed to a trace parent.
C9_Witness ==
    /\ parsed.ok
    /\ value.kind = "str"
    /\ value.s[1] = " "
    /\ Len(Trimmed(value.s)) = 51

====
